---- MODULE Spec2Model ----
(***************************************************************************)
(* A model of the SQL auto-grader: the marker-based query extractor        *)
(* (parse_queries), the schema reset (drop_all_tables, run_sql_script),    *)
(* the result normaliser and comparator (normalize_result, diff_results)   *)
(* and the grading run of main() in main.py.                               *)
(*                                                                         *)
(* Text is a sequence of one-character strings.  A Python value that may   *)
(* be None is a sequence of length 0 (None) or 1 (the value).              *)
(***************************************************************************)
EXTENDS Integers, Sequences, FiniteSets, TLC

VARIABLES
  \* ---- the grading run, main() of main.py
  pc,                \* where main() is
  db,                \* the shared database behind the one cursor
  dbOps,             \* the database operations issued last (a window)
  model_content,     \* the text of MODEL_FILE
  model_queries,     \* parse_queries(model_content, EXPECTED_QUERIES)
  expected_results,  \* slot -> None | (cols, sorted rows)
  listing,           \* sorted(os.listdir(QUERIES_DIR))
  fileIdx,           \* index in listing of the file being looked at
  student_id,        \* the identifier of the submission being graded
  student_content,   \* the text of the submission being graded
  student_queries,   \* parse_queries(student_content, EXPECTED_QUERIES)
  student_scores,    \* "Q<i>" -> status, of the submission being graded
  slot,              \* the loop variable i of the running for loop
  log,               \* what was written to the submission's log, per slot
  p1log,             \* what phase 1 did per slot
  results,           \* the score rows appended so far
  csv,               \* None | the rows written to OUTPUT_CSV
  \* ---- parse_queries applied to a text
  content, expected_count, queries,
  \* ---- normalize_result and diff_results applied to two results
  exp_raw, act_raw, graded,
  \* ---- normalize_result applied to a result and to what it returned
  n_cols, n_rows, normalized,
  \* ---- check_format and check_format_streamlit applied to a file
  cli,               \* None | what check_format printed and returned
  web,               \* None | what check_format_streamlit returned
  \* ---- the upload form of app.py
  case_sensitive_fs, \* whether QUERIES_DIR tells "a.sql" from "A.sql"
  remote_ip,         \* session -> what get_remote_ip() returns
  uploaded_file,     \* session -> None | the file in the uploader widget
  session_state,     \* session -> st.session_state
  submitting,        \* session -> how far a click on Submit Query has got
  tracking_file,     \* the content of SUBMISSIONS_LOG
  queries_dir,       \* the files of QUERIES_DIR: name -> content
  events,            \* the lines of EVENTS_LOG
  interactions       \* how many times the users have acted on the form

runVars   == <<pc, db, dbOps, model_content, model_queries, expected_results,
               listing, fileIdx, student_id, student_content, student_queries,
               student_scores, slot, log, p1log, results, csv>>
parseVars == <<content, expected_count, queries>>
diffVars  == <<exp_raw, act_raw, graded>>
normVars  == <<n_cols, n_rows, normalized>>
formatVars == <<cli, web>>
uploadVars == <<case_sensitive_fs, remote_ip, uploaded_file, session_state,
                submitting, tracking_file, queries_dir, events, interactions>>
vars      == <<runVars, parseVars, diffVars, normVars, formatVars,
               uploadVars>>

\* ------------------------------------------------------------------ bounds
\* The longest text given to parse_queries, in pieces (a marker or a character).
MaxPieces == 5
\* The most files the submissions directory holds.
MaxFiles == 2
\* The most rows a query result holds in the comparator's check.
MaxRows == 2
\* The most times normalize_result is applied in a row.
MaxApplications == 2
MaxFormatPieces == 4
MaxInteractions == 6

\* main.py line 20 (and check_format.py line 6)
EXPECTED_QUERIES == 2

\* ------------------------------------------------------------ Python values
None == <<>>
Some(x) == <<x>>
\* "is not None" in place of the truth value
TruthyNotNone(o) == o # None

\* Python's truth value of an Optional[str]: None and "" are false.
Truthy(o) == o # None /\ Len(o[1]) > 0

Min(S) == CHOOSE x \in S : \A y \in S : x <= y

\* --------------------------------------------------------------------- text
WS == {" ", "\n"}
DigitChars == <<"0", "1", "2", "3", "4", "5", "6", "7", "8", "9">>
IsDigit(c) == \E d \in 1..10 : DigitChars[d] = c

\* str(n) for n >= 0, as the f-strings format a number
RECURSIVE Str(_)
Str(n) == IF n < 10 THEN <<DigitChars[n + 1]>>
          ELSE Str(n \div 10) \o <<DigitChars[(n % 10) + 1]>>

\* marker = f"--{i}--"
Marker(i) == <<"-", "-">> \o Str(i) \o <<"-", "-">>

\* the literal p occurs in s at position k
LiteralAt(s, p, k) ==
  /\ k >= 1
  /\ k + Len(p) - 1 <= Len(s)
  /\ \A j \in 1..Len(p) : s[k + j - 1] = p[j]

\* --\d-- in place of --\d+--: a marker of one digit alone ends a payload
BoundaryAtOneDigit(s, k) ==
  /\ k >= 1
  /\ k + 4 <= Len(s)
  /\ s[k] = "-" /\ s[k + 1] = "-"
  /\ IsDigit(s[k + 2])
  /\ s[k + 3] = "-" /\ s[k + 4] = "-"

\* the regular expression --\d+-- matches in s at position k
BoundaryAt(s, k) ==
  /\ k >= 1
  /\ k + 1 <= Len(s)
  /\ s[k] = "-" /\ s[k + 1] = "-"
  /\ \E d \in 1..Len(s) :
       /\ k + 3 + d <= Len(s)
       /\ \A j \in 1..d : IsDigit(s[k + 1 + j])
       /\ s[k + 2 + d] = "-" /\ s[k + 3 + d] = "-"

\* $ without re.MULTILINE: the end of the text, or just before a final newline
DollarAt(s, k) == k = Len(s) + 1 \/ (k = Len(s) /\ s[k] = "\n")

\* the lookahead (?=--\d+--|$)
LookaheadAt(s, k) == BoundaryAt(s, k) \/ DollarAt(s, k)

\* str.strip()
RECURSIVE strip(_)
strip(t) ==
  IF t = <<>> THEN t
  ELSE IF t[1] \in WS THEN strip(Tail(t))
  ELSE IF t[Len(t)] \in WS THEN strip(SubSeq(t, 1, Len(t) - 1))
  ELSE t

\* re.search(rf"{marker}\s*(.*?)\s*(?=--\d+--|$)", content, re.DOTALL) and
\* match.group(1).strip(): the leftmost place the marker occurs; the greedy
\* \s* takes the whitespace after it; the lazy group ends at the first
\* place from where whitespace alone leads to a place the lookahead accepts.
SearchSlot(s, i) ==
  LET m == Marker(i)
      starts == {k \in 1..Len(s) : LiteralAt(s, m, k)}
  IN IF starts = {} THEN None
     ELSE LET k == Min(starts)
              p == k + Len(m)
              a == Min({x \in p..(Len(s) + 1) :
                          x = Len(s) + 1 \/ s[x] \notin WS})
              e == Min({x \in a..(Len(s) + 1) :
                          \E j \in x..(Len(s) + 1) :
                             /\ \A y \in x..(j - 1) : s[y] \in WS
                             /\ LookaheadAt(s, j)})
          IN Some(strip(SubSeq(s, a, e - 1)))

\* parse_queries(content, expected_count): slot -> None | query text
parse_queries(c, n) == [i \in 1..n |-> SearchSlot(c, i)]

\* ------------------------------------------------------------ query results
\* A result is (cols, rows): column names in order and a list of row tuples.
\* A cell is a number or NULL (Python's None).
NULL == -1

\* The first position where two row tuples differ (0: nowhere).
FirstDiff(r1, r2) ==
  LET ds == {k \in 1..Len(r1) : k <= Len(r2) /\ r1[k] # r2[k]}
  IN IF ds = {} THEN 0 ELSE Min(ds)

\* Python's r1 < r2 on tuples is defined: the cells at the first difference
\* are compared with <, which raises TypeError when one of them is None.
Comparable(r1, r2) ==
  LET d == FirstDiff(r1, r2)
  IN d = 0 \/ (r1[d] # NULL /\ r2[d] # NULL)

RowLess(r1, r2) ==
  LET d == FirstDiff(r1, r2)
  IN IF d = 0 THEN Len(r1) < Len(r2) ELSE r1[d] < r2[d]

RECURSIVE Insert(_, _)
Insert(r, srt) ==
  IF srt = <<>> THEN <<r>>
  ELSE IF RowLess(r, Head(srt)) THEN <<r>> \o srt
  ELSE <<Head(srt)>> \o Insert(r, Tail(srt))

\* the first row moved to the end
sortedRotated(rows) ==
  IF rows = <<>> THEN <<>> ELSE Tail(rows) \o <<Head(rows)>>

\* sorted(rows), for rows that can be compared
RECURSIVE sorted(_)
sorted(rows) ==
  IF rows = <<>> THEN <<>> ELSE Insert(Head(rows), sorted(Tail(rows)))

\* sorted(rows) raises TypeError
SortRaises(rows) ==
  \E i, j \in 1..Len(rows) : ~Comparable(rows[i], rows[j])

\* normalize_result(cols, rows), rows None or a list:
\* [raised, value], value None or (cols, sorted rows)
normalize_result(cols, rows) ==
  IF rows = None THEN [raised |-> FALSE, value |-> None]
  ELSE IF SortRaises(rows[1]) THEN [raised |-> TRUE, value |-> None]
  ELSE [raised |-> FALSE,
        value |-> Some([cols |-> cols, rows |-> sorted(rows[1])])]

\* set(rows)
RowSet(rows) == {rows[k] : k \in 1..Len(rows)}

\* the letters' case of a column name
Lower(c) == CASE c = "ID" -> "id" [] c = "NAME" -> "name" [] OTHER -> c

\* the column lists compared without the letters' case
ColsDifferIgnoringCase(exp_cols, act_cols) ==
  [k \in 1..Len(exp_cols) |-> Lower(exp_cols[k])]
    # [k \in 1..Len(act_cols) |-> Lower(act_cols[k])]

\* exp_cols != act_cols
ColsDiffer(exp_cols, act_cols) == exp_cols # act_cols

\* the rows compared place by place, as lists
RowsNotAtSamePlace(a_rows, b_rows) ==
  {a_rows[k] : k \in {j \in 1..Len(a_rows) :
                        j > Len(b_rows) \/ a_rows[j] # b_rows[j]}}

\* set(exp_rows) - set(act_rows), and the same with the arguments swapped
RowsNotIn(a_rows, b_rows) == RowSet(a_rows) \ RowSet(b_rows)

\* The text diff_results returns, by its paragraphs: message (one of the two
\* early returns, "" otherwise), the column mismatch (None, or the two column
\* lists), the missing rows and the extra rows.  The paragraphs are joined
\* by "\n\n"; the text is empty when there is none.
NoDiff == [message |-> "", columns |-> None, missing |-> {}, extra |-> {}]

\* diff_results that never looks for extra rows
diff_results_NoExtra(expected, actual) ==
  IF expected = None THEN
     [NoDiff EXCEPT !.message = "No expected result provided."]
  ELSE IF actual = None THEN
     [NoDiff EXCEPT !.message =
        "No actual result provided (student query missing or failed)."]
  ELSE [message |-> "",
        columns |-> IF ColsDiffer(expected[1].cols, actual[1].cols)
                    THEN Some(<<expected[1].cols, actual[1].cols>>) ELSE None,
        missing |-> RowsNotIn(expected[1].rows, actual[1].rows),
        extra   |-> {}]

\* diff_results without its first early return
diff_results_NoExpectedCheck(expected, actual) ==
  IF actual = None THEN
     [NoDiff EXCEPT !.message =
        "No actual result provided (student query missing or failed)."]
  ELSE IF expected = None THEN NoDiff
  ELSE [message |-> "",
        columns |-> IF ColsDiffer(expected[1].cols, actual[1].cols)
                    THEN Some(<<expected[1].cols, actual[1].cols>>) ELSE None,
        missing |-> RowsNotIn(expected[1].rows, actual[1].rows),
        extra   |-> RowsNotIn(actual[1].rows, expected[1].rows)]

\* diff_results(expected, actual)
diff_results(expected, actual) ==
  IF expected = None THEN
     [NoDiff EXCEPT !.message = "No expected result provided."]
  ELSE IF actual = None THEN
     [NoDiff EXCEPT !.message =
        "No actual result provided (student query missing or failed)."]
  ELSE LET e == expected[1]
           a == actual[1]
       IN [message |-> "",
           columns |-> IF ColsDiffer(e.cols, a.cols)
                       THEN Some(<<e.cols, a.cols>>) ELSE None,
           missing |-> RowsNotIn(e.rows, a.rows),
           extra   |-> RowsNotIn(a.rows, e.rows)]

\* the text taken for empty though rows are missing
DiffTruthyNoMissing(d) ==
  d.message # "" \/ d.columns # None \/ d.extra # {}

\* bool(diff): the text is not empty
DiffTruthy(d) ==
  d.message # "" \/ d.columns # None \/ d.missing # {} \/ d.extra # {}

\* a handler that logs the exception and raises it again
except_ExceptionReraise(exc) ==
  [kind |-> "error", status |-> "FAIL", actual |-> None, diff |-> NoDiff,
   text |-> "SQL ERROR:", exc |-> exc, propagates |-> TRUE]

\* Lines 216-219 of main(): except Exception as e.  The exception is written
\* to the log and goes no further; status is still "FAIL".
except_Exception(exc) ==
  [kind |-> "error", status |-> "FAIL", actual |-> None, diff |-> NoDiff,
   text |-> "SQL ERROR:", exc |-> exc, propagates |-> FALSE]

\* Lines 196-214 of main(), for a query that executed and returned
\* (act_cols, act_rows): normalise, compare with the expected result, decide.
Verdict(actual, d) ==
  [kind |-> "graded",
   status |-> IF DiffTruthy(d) THEN "FAIL" ELSE "PASS",
   actual |-> actual,
   diff |-> d,
   text |-> IF DiffTruthy(d) THEN "DIFF:" ELSE "RESULT: PASS",
   exc |-> "",
   propagates |-> FALSE]

JudgeNormalized(expected, n) ==
  IF n.raised THEN except_Exception("TypeError")
  ELSE Verdict(n.value, diff_results(expected, n.value))

JudgeSlot(expected, act_cols, act_rows) ==
  JudgeNormalized(expected, normalize_result(act_cols, Some(act_rows)))

\* Lines 149-153 of main(): the expected result of a model query that
\* executed; an exception while normalising gives None.
ExpectedFrom(n) == IF n.raised THEN None ELSE n.value
ExpectedOf(cols, rows) == ExpectedFrom(normalize_result(cols, Some(rows)))

\* ------------------------------------------------------------- the database
\* The database is the user's tables (name -> set of rows, the primary key
\* making rows distinct) and the user's other objects (views).  A row of
\* Student is the 1-tuple of its id.  Child references Student by a foreign
\* key.  A statement is a text of one letter:
\*   C  CREATE TABLE Student (id PRIMARY KEY)
\*   1  INSERT INTO Student VALUES (1)        2: the same with 2
\*   A  SELECT id FROM Student ORDER BY id
\*   L  SELECT id AS "id" FROM Student ORDER BY id
\*   S  SELECT id FROM Student WHERE id = 1
\*   N  SELECT id FROM Student UNION ALL SELECT NULL FROM dual
\*   W  SELECT id FROM V_Student ORDER BY id
\*   V  CREATE VIEW V_Student AS SELECT id FROM Student
\*   B  BEGIN INSERT INTO Student VALUES (3);
\*        EXECUTE IMMEDIATE 'CREATE TABLE Child (sid REFERENCES Student)'; END;
EmptyDb == [tables |-> <<>>, others |-> {}]

HasTable(d, t) == t \in DOMAIN d.tables
RowsOf(d, t) == IF HasTable(d, t) THEN d.tables[t] ELSE {}
WithTable(d, t, rows) ==
  [d EXCEPT !.tables = [x \in DOMAIN d.tables \cup {t} |->
                          IF x = t THEN rows ELSE d.tables[x]]]
WithoutTable(d, t) ==
  [d EXCEPT !.tables = [x \in DOMAIN d.tables \ {t} |-> d.tables[x]]]

RECURSIVE SetToSeq(_)
SetToSeq(S) ==
  IF S = {} THEN <<>>
  ELSE LET x == CHOOSE y \in S : TRUE IN <<x>> \o SetToSeq(S \ {x})

\* what cursor.execute leaves: the database, whether it raised, and
\* cursor.description (None for a statement that is no query) with the rows
Raised(d) == [db |-> d, raised |-> TRUE, description |-> None, rows |-> <<>>]
NoRows(d) == [db |-> d, raised |-> FALSE, description |-> None, rows |-> <<>>]
Rows(d, cols, rows) ==
  [db |-> d, raised |-> FALSE, description |-> Some(cols), rows |-> rows]

InsertRow(d, r) ==
  IF HasTable(d, "STUDENT") /\ r \notin d.tables["STUDENT"]
  THEN NoRows(WithTable(d, "STUDENT", d.tables["STUDENT"] \cup {r}))
  ELSE Raised(d)

\* cursor.execute(stmt), has saying whether Student exists and asc being its
\* rows in ascending order
ExecuteOn(d, stmt, has, asc) ==
     CASE stmt = <<"C">> ->
            IF has THEN Raised(d) ELSE NoRows(WithTable(d, "STUDENT", {}))
       [] stmt = <<"1">> -> InsertRow(d, <<1>>)
       [] stmt = <<"2">> -> InsertRow(d, <<2>>)
       [] stmt = <<"A">> -> IF has THEN Rows(d, <<"ID">>, asc) ELSE Raised(d)
       [] stmt = <<"L">> -> IF has THEN Rows(d, <<"id">>, asc) ELSE Raised(d)
       [] stmt = <<"S">> ->
            IF has THEN Rows(d, <<"ID">>,
                             SetToSeq(RowsOf(d, "STUDENT") \cap {<<1>>}))
            ELSE Raised(d)
       [] stmt = <<"N">> ->
            IF has THEN Rows(d, <<"ID">>, asc \o << <<NULL>> >>) ELSE Raised(d)
       [] stmt = <<"W">> ->
            IF has /\ "V_STUDENT" \in d.others
            THEN Rows(d, <<"ID">>, asc) ELSE Raised(d)
       [] stmt = <<"V">> ->
            IF has /\ "V_STUDENT" \notin d.others
            THEN NoRows([d EXCEPT !.others = @ \cup {"V_STUDENT"}])
            ELSE Raised(d)
       [] stmt = <<"B">> ->
            IF has /\ <<3>> \notin d.tables["STUDENT"] /\ ~HasTable(d, "CHILD")
            THEN NoRows(WithTable(WithTable(d, "STUDENT",
                                            d.tables["STUDENT"] \cup {<<3>>}),
                                  "CHILD", {}))
            ELSE Raised(d)
       [] OTHER -> Raised(d)

\* cursor.execute(stmt)
Execute(d, stmt) ==
  ExecuteOn(d, stmt, HasTable(d, "STUDENT"),
            sorted(SetToSeq(RowsOf(d, "STUDENT"))))

\* DROP TABLE "<t>" PURGE: refused while a foreign key of another table
\* references t
DropTable(d, t) ==
  IF t = "STUDENT" /\ HasTable(d, "CHILD") THEN Raised(d)
  ELSE NoRows(WithoutTable(d, t))

\* The loop of drop_all_tables over the fetched table names, in the order
\* the database returned them; a failing DROP is passed over.
RECURSIVE DropEach(_, _)
DropEach(d, names) ==
  IF names = <<>> THEN d
  ELSE DropEach(DropTable(d, Head(names)).db, Tail(names))

\* drop_all_tables(cursor): the SELECT on user_tables raises (fails), or
\* every table is dropped in the order given
drop_all_tables(d, order, fails) ==
  IF fails THEN [db |-> d, raised |-> TRUE]
  ELSE [db |-> DropEach(d, order), raised |-> FALSE]

\* the orders in which SELECT table_name FROM user_tables may return the tables
TableOrders(d) ==
  LET n == Cardinality(DOMAIN d.tables)
  IN {o \in [1..n -> DOMAIN d.tables] : \A a, b \in 1..n : a # b => o[a] # o[b]}

\* str.split(sep) for a separator of one character
RECURSIVE Split(_, _)
Split(s, sep) ==
  LET at == {k \in 1..Len(s) : s[k] = sep}
  IN IF at = {} THEN <<s>>
     ELSE <<SubSeq(s, 1, Min(at) - 1)>>
            \o Split(SubSeq(s, Min(at) + 1, Len(s)), sep)

\* the text of SCHEMA_FILE
SchemaSql == <<"C", ";", "\n", "1", ";", "\n", "2", ";", "\n">>

\* [s.strip() for s in sql.split(";") if s.strip()]
Statements(sql) ==
  LET parts == Split(sql, ";")
  IN SelectSeq([k \in 1..Len(parts) |-> strip(parts[k])], LAMBDA t : t # <<>>)

\* the statements of SCHEMA_FILE
SchemaStatements == Statements(SchemaSql)

\* The loop of run_sql_script over the statements; a failing statement is
\* passed over.
RECURSIVE RunEach(_, _)
RunEach(d, stmts) ==
  IF stmts = <<>> THEN d
  ELSE RunEach(Execute(d, Head(stmts)).db, Tail(stmts))

\* run_sql_script(cursor, path) for a file of the statements stmts: open()
\* raises (fails), or the statements run in order
run_sql_script(d, stmts, fails) ==
  IF fails THEN [db |-> d, raised |-> TRUE]
  ELSE [db |-> RunEach(d, stmts), raised |-> FALSE]

\* The schema reset once drop_all_tables has left dr: the schema script is
\* replayed unless drop_all_tables raised.
ReplayAfterDrop(dr, sc) ==
  IF dr.raised
  THEN [db |-> dr.db, raised |-> TRUE, ops |-> <<"drop raised">>]
  ELSE [db |-> sc.db, raised |-> sc.raised,
        ops |-> IF sc.raised THEN <<"drop", "script raised">>
                ELSE <<"drop", "script">>]

\* drop_all_tables(cursor) alone, the schema script never replayed
ResetSchemaDropOnly(d, order, fail) ==
  [db |-> DropEach(d, order), raised |-> FALSE, ops |-> <<"drop">>]

\* drop_all_tables(cursor); run_sql_script(cursor, SCHEMA_FILE): the schema
\* reset before every query.  fail says which of the two raises, if any.
ResetSchema(d, order, fail) ==
  ReplayAfterDrop(drop_all_tables(d, order, fail = "drop"),
                  run_sql_script(DropEach(d, order), SchemaStatements,
                                 fail = "script"))

ResetFailures == {"none", "drop", "script"}

\* fetch_query_result(cursor, sql) once cursor.execute(sql) has left x: the
\* column names are read from cursor.description, which raises TypeError when
\* the statement was no query
FetchExecuted(x) ==
  IF x.raised
  THEN [db |-> x.db, raised |-> TRUE, cols |-> <<>>, rows |-> <<>>,
        exc |-> "DatabaseError"]
  ELSE IF x.description = None
  THEN [db |-> x.db, raised |-> TRUE, cols |-> <<>>, rows |-> <<>>,
        exc |-> "TypeError"]
  ELSE [db |-> x.db, raised |-> FALSE, cols |-> x.description[1],
        rows |-> x.rows, exc |-> ""]

\* fetch_query_result(cursor, sql), sql not empty
fetch_query_result(d, sql) == FetchExecuted(Execute(d, sql))

\* the variables of a specification that is not running
IdleRun ==
  /\ pc = "idle" /\ db = None /\ dbOps = <<>> /\ model_queries = None
  /\ model_content = None /\ student_content = None
  /\ expected_results = None /\ listing = <<>> /\ fileIdx = 0
  /\ student_id = None /\ student_queries = None /\ student_scores = None
  /\ slot = 0 /\ log = None /\ p1log = None /\ results = <<>> /\ csv = None
IdleParse == content = None /\ expected_count = 0 /\ queries = None
IdleDiff == exp_raw = None /\ act_raw = None /\ graded = None
IdleNorm == n_cols = None /\ n_rows = None /\ normalized = <<>>
IdleFormat == cli = None /\ web = None
IdleUpload ==
  /\ case_sensitive_fs = TRUE /\ remote_ip = None /\ uploaded_file = None
  /\ session_state = None /\ submitting = None /\ tracking_file = None
  /\ queries_dir = None /\ events = <<>> /\ interactions = 0

\* ------------------------------------------------------------ the file names
\* The code point of a character of a file name.
Ord(c) == CASE c = "." -> 46 [] c = "B" -> 66 [] c = "a" -> 97
            [] c = "l" -> 108 [] c = "n" -> 110 [] c = "q" -> 113
            [] c = "s" -> 115 [] c = "t" -> 116 [] c = "x" -> 120

\* Python's s < t on strings
RECURSIVE StrLess(_, _)
StrLess(a, b) ==
  IF b = <<>> THEN FALSE
  ELSE IF a = <<>> THEN TRUE
  ELSE IF Head(a) # Head(b) THEN Ord(Head(a)) < Ord(Head(b))
  ELSE StrLess(Tail(a), Tail(b))

\* the names in descending order
RECURSIVE SortedNamesDescending(_)
SortedNamesDescending(S) ==
  IF S = {} THEN <<>>
  ELSE LET m == CHOOSE x \in S : \A y \in S \ {x} : StrLess(y, x)
       IN <<m>> \o SortedNamesDescending(S \ {m})

\* sorted(os.listdir(QUERIES_DIR))
RECURSIVE SortedNames(_)
SortedNames(S) ==
  IF S = {} THEN <<>>
  ELSE LET m == CHOOSE x \in S : \A y \in S \ {x} : StrLess(x, y)
       IN <<m>> \o SortedNames(S \ {m})

DotSql == <<".", "s", "q", "l">>

\* file.endswith(".sql")
EndsWithSql(f) == LiteralAt(f, DotSql, Len(f) - Len(DotSql) + 1)

\* file.replace(".sql", "")
RECURSIVE RemoveSql(_)
RemoveSql(f) ==
  IF f = <<>> THEN <<>>
  ELSE IF LiteralAt(f, DotSql, 1)
       THEN RemoveSql(SubSeq(f, Len(DotSql) + 1, Len(f)))
       ELSE <<Head(f)>> \o RemoveSql(Tail(f))

\* The names the submissions directory may hold.
DirPool == {<<"B", ".", "s", "q", "l">>, <<"a", ".", "s", "q", "l">>,
            <<"n", ".", "t", "x", "t">>}
Directories == {S \in SUBSET DirPool : Cardinality(S) <= MaxFiles}

\* ----------------------------------------------------------- the file texts
\* What a file says for a slot: nothing (the marker is missing), the marker
\* and blanks, or the marker and a statement.
SlotText(i, o) ==
  IF o = "missing" THEN <<>>
  ELSE Marker(i) \o <<"\n">> \o (IF o = "blank" THEN <<" ">> ELSE <<o>>)
         \o <<"\n">>
RECURSIVE FileText(_, _)
FileText(f, i) ==
  IF i > EXPECTED_QUERIES THEN <<>>
  ELSE SlotText(i, f[i]) \o FileText(f, i + 1)

ModelChoices == {"missing", "blank", "A", "W"}
StudentChoices == {"missing", "blank", "A", "L", "S", "N", "V", "W", "B"}
ModelTexts == {FileText(f, 1) : f \in [1..EXPECTED_QUERIES -> ModelChoices]}
StudentTexts == {FileText(f, 1) : f \in [1..EXPECTED_QUERIES -> StudentChoices]}

\* a file text read and parsed: f.read(), then parse_queries
ReadAndParsed(texts) ==
  {[content |-> t, queries |-> parse_queries(t, EXPECTED_QUERIES)] :
      t \in texts}
ModelFiles == ReadAndParsed(ModelTexts)
StudentFiles == ReadAndParsed(StudentTexts)

\* ----------------------------------------------------- main() of main.py
Slots == 1..EXPECTED_QUERIES

\* the database operations issued last
Window(ops) == SubSeq(ops, IF Len(ops) > 3 THEN Len(ops) - 2 ELSE 1, Len(ops))

\* after construction: nothing has run; the database holds no table
Init ==
  /\ IdleParse /\ IdleDiff /\ IdleNorm /\ IdleFormat /\ IdleUpload
  /\ pc = "start"
  /\ db = EmptyDb
  /\ dbOps = <<>>
  /\ model_content = <<>>
  /\ model_queries = <<>>
  /\ expected_results = <<>>
  /\ listing = <<>>
  /\ fileIdx = 0
  /\ student_id = <<>>
  /\ student_content = <<>>
  /\ student_queries = <<>>
  /\ student_scores = <<>>
  /\ slot = 0
  /\ log = <<>>
  /\ p1log = <<>>
  /\ results = <<>>
  /\ csv = None

\* Lines 127-140: connect, read MODEL_FILE and parse it.  A failure to
\* connect or to read the file ends the run.
LoadModel ==
  /\ pc = "start"
  /\ \/ /\ pc' = "aborted in phase 1"
        /\ UNCHANGED <<model_content, model_queries, slot>>
     \/ \E f \in ModelFiles :
          /\ model_content' = f.content
          /\ model_queries' = f.queries
          /\ slot' = 1
          /\ pc' = "phase 1"
  /\ UNCHANGED <<student_content, db, dbOps, expected_results, listing,
                 fileIdx, student_id, student_queries, student_scores, log,
                 p1log, results, csv, parseVars, diffVars,
                 normVars, formatVars, uploadVars>>

\* Lines 146-156, one pass of the loop over the slots, once the schema
\* reset has left r and, for a query text, fetch_query_result has left f
Phase1Fetched(r, f) ==
  [db |-> f.db, ops |-> r.ops \o <<"query">>, resetDb |-> r.db,
   aborts |-> FALSE,
   outcome |-> IF f.raised \/ SortRaises(f.rows) THEN "raised" ELSE "ok",
   expected |-> IF f.raised THEN None ELSE ExpectedOf(f.cols, f.rows)]

Phase1AfterReset(r, sql) ==
  IF r.raised
  THEN [db |-> r.db, ops |-> r.ops, resetDb |-> r.db, aborts |-> TRUE,
        outcome |-> "reset raised", expected |-> None]
  ELSE IF ~Truthy(sql)
  THEN [db |-> r.db, ops |-> r.ops, resetDb |-> r.db, aborts |-> FALSE,
        outcome |-> "not found", expected |-> None]
  ELSE Phase1Fetched(r, fetch_query_result(r.db, sql[1]))

\* Lines 143-156, one pass of the loop over the slots: what it leaves.  The
\* schema reset is in no try block: when it raises the run ends.
Phase1Outcome(d, order, fail, sql) ==
  Phase1AfterReset(ResetSchema(d, order, fail), sql)

Phase1Apply(o) ==
  /\ db' = o.db
  /\ dbOps' = Window(dbOps \o o.ops)
  /\ p1log' = p1log \o <<[sql |-> model_queries[slot],
                          outcome |-> o.outcome,
                          resetDb |-> o.resetDb]>>
  /\ IF o.aborts
     THEN /\ pc' = "aborted in phase 1"
          /\ UNCHANGED <<expected_results, slot>>
     ELSE /\ expected_results' = expected_results \o <<o.expected>>
          /\ slot' = slot + 1
          /\ pc' = pc

Phase1Slot ==
  /\ pc = "phase 1" /\ slot <= EXPECTED_QUERIES
  /\ \E order \in TableOrders(db), fail \in ResetFailures :
       Phase1Apply(Phase1Outcome(db, order, fail, model_queries[slot]))
  /\ UNCHANGED <<model_content, student_content, model_queries, listing,
                 fileIdx, student_id, student_queries, student_scores, log,
                 results, csv, parseVars, diffVars,
                 normVars, formatVars, uploadVars>>

Phase1EndApply(dr) ==
  /\ db' = dr.db
  /\ dbOps' = Window(dbOps \o <<IF dr.raised THEN "drop raised" ELSE "drop">>)
  /\ IF dr.raised
     THEN /\ pc' = "aborted in phase 1"
          /\ UNCHANGED <<listing, fileIdx>>
     ELSE /\ \E dir \in Directories : listing' = SortedNames(dir)
          /\ fileIdx' = 1
          /\ pc' = "files"

\* Lines 158-163: commit, drop all tables, list the submissions directory
Phase1End ==
  /\ pc = "phase 1" /\ slot = EXPECTED_QUERIES + 1
  /\ \E order \in TableOrders(db), fails \in BOOLEAN :
       Phase1EndApply(drop_all_tables(db, order, fails))
  /\ UNCHANGED <<model_content, student_content, model_queries,
                 expected_results, student_id, student_queries,
                 student_scores, slot, log, p1log, results, csv, parseVars,
                 diffVars, normVars, formatVars, uploadVars>>

\* Lines 164-165: a file that is no .sql file is passed over
SkipFile ==
  /\ pc = "files" /\ fileIdx <= Len(listing)
  /\ ~EndsWithSql(listing[fileIdx])
  /\ fileIdx' = fileIdx + 1
  /\ UNCHANGED <<model_content, student_content, pc, db, dbOps, model_queries,
                 expected_results, listing, student_id, student_queries,
                 student_scores, slot, log, p1log, results, csv, parseVars,
                 diffVars, normVars, formatVars, uploadVars>>

\* Lines 167-181: the next submission is read and parsed and its log opened.
\* The read is in no try block: a file that cannot be read or decoded ends
\* the run.
StartSubmission ==
  /\ pc = "files" /\ fileIdx <= Len(listing)
  /\ EndsWithSql(listing[fileIdx])
  /\ student_id' = RemoveSql(listing[fileIdx])
  /\ student_scores' = <<>>
  /\ log' = <<>>
  /\ \/ /\ pc' = "aborted reading a submission"
        /\ UNCHANGED <<student_content, student_queries, slot>>
     \/ \E f \in StudentFiles :
          /\ student_content' = f.content
          /\ student_queries' = f.queries
          /\ slot' = 1
          /\ pc' = "grading"
  /\ UNCHANGED <<model_content, db, dbOps, model_queries, expected_results,
                 listing, fileIdx, p1log, results, csv, parseVars, diffVars,
                 normVars, formatVars, uploadVars>>

\* Lines 191-221, one pass of the loop over the slots, once the schema
\* reset has left r and, for a query text, fetch_query_result has left f
SlotFetched(r, f, sql, expected) ==
  [db |-> f.db, ops |-> r.ops \o <<"query">>, sql |-> sql, reset |-> "done",
   resetDb |-> r.db, expected |-> expected,
   executed |-> IF f.raised THEN "raised" ELSE "returned",
   raw |-> IF f.raised THEN None
           ELSE Some([cols |-> f.cols, rows |-> f.rows])]
   @@ (IF f.raised THEN except_Exception(f.exc)
       ELSE JudgeSlot(expected, f.cols, f.rows))

SlotAfterReset(r, sql, expected) ==
  IF r.raised
  THEN [db |-> r.db, ops |-> r.ops, sql |-> sql, reset |-> "raised",
        resetDb |-> r.db, executed |-> "no", raw |-> None,
        expected |-> expected]
         @@ except_Exception("reset")
  ELSE IF ~Truthy(sql)
  THEN [db |-> r.db, ops |-> r.ops, sql |-> sql, reset |-> "done",
        resetDb |-> r.db, executed |-> "no", raw |-> None,
        expected |-> expected, kind |-> "absent", status |-> "FAIL",
        actual |-> None, diff |-> NoDiff,
        text |-> "STATUS: FAIL (Marker not found or empty)",
        exc |-> "", propagates |-> FALSE]
  ELSE SlotFetched(r, fetch_query_result(r.db, sql[1]), sql, expected)

\* Lines 185-221, one pass of the loop over the slots: what it leaves
SlotOutcome(d, order, fail, sql, expected) ==
  SlotAfterReset(ResetSchema(d, order, fail), sql, expected)

LogEntry(o) == [x \in DOMAIN o \ {"db", "ops", "propagates"} |-> o[x]]

GradeSlotApply(o) ==
  /\ db' = o.db
  /\ dbOps' = Window(dbOps \o o.ops)
  /\ log' = Append(log, LogEntry(o))
  /\ IF o.propagates
     THEN /\ pc' = "aborted in a slot"
          /\ UNCHANGED <<student_scores, slot>>
     ELSE /\ student_scores' = Append(student_scores, o.status)
          /\ slot' = slot + 1
          /\ pc' = pc

GradeSlot ==
  /\ pc = "grading" /\ slot <= EXPECTED_QUERIES
  /\ \E order \in TableOrders(db), fail \in ResetFailures :
       GradeSlotApply(SlotOutcome(db, order, fail, student_queries[slot],
                                  expected_results[slot]))
  /\ UNCHANGED <<model_content, student_content, model_queries,
                 expected_results, listing, fileIdx, student_id,
                 student_queries, p1log, results, csv, parseVars, diffVars,
                 normVars, formatVars, uploadVars>>

\* every verdict counted, whatever it is
PassCountAll(scores) == Len(scores)

\* list(student_scores.values()).count("PASS")
PassCount(scores) == Cardinality({k \in 1..Len(scores) : scores[k] = "PASS"})

\* the score row without its last cell
ScoreRowNoTotal(id, scores) == <<id>> \o [i \in Slots |-> scores[i]]

\* Lines 225-232: the score row of the submission
ScoreRow(id, scores) ==
  <<id>> \o [i \in Slots |-> scores[i]]
         \o <<Str(PassCount(scores)) \o <<"/">> \o Str(EXPECTED_QUERIES)>>

FinishSubmission ==
  /\ pc = "grading" /\ slot = EXPECTED_QUERIES + 1
  /\ results' = Append(results, ScoreRow(student_id, student_scores))
  /\ fileIdx' = fileIdx + 1
  /\ pc' = "files"
  /\ UNCHANGED <<model_content, student_content, db, dbOps, model_queries,
                 expected_results, listing, student_id, student_queries,
                 student_scores, slot, log, p1log, csv, parseVars, diffVars,
                 normVars, formatVars, uploadVars>>

\* Lines 235-244: the report is written
Export ==
  /\ pc = "files" /\ fileIdx > Len(listing)
  /\ csv' = Some(results)
  /\ pc' = "done"
  /\ UNCHANGED <<model_content, student_content, db, dbOps, model_queries,
                 expected_results, listing, fileIdx, student_id,
                 student_queries, student_scores, slot, log, p1log, results,
                 parseVars, diffVars,
                 normVars, formatVars, uploadVars>>

Next ==
  \/ LoadModel
  \/ Phase1Slot
  \/ Phase1End
  \/ SkipFile
  \/ StartSubmission
  \/ GradeSlot
  \/ FinishSubmission
  \/ Export

Spec == Init /\ [][Next]_vars

\* ------------------------------------------- parse_queries applied to a text
\* What a text is made of: the markers of the slots, the marker of slot 10,
\* a letter, a dash, a blank and a newline.
Pieces == {Marker(i) : i \in 1..EXPECTED_QUERIES}
            \cup {Marker(10), <<"a">>, <<"-">>, <<" ">>, <<"\n">>}

RECURSIVE Concat(_)
Concat(ps) == IF ps = <<>> THEN <<>> ELSE Head(ps) \o Concat(Tail(ps))

Texts == {Concat(ps) : ps \in UNION {[1..n -> Pieces] : n \in 0..MaxPieces}}

InitParse ==
  /\ IdleRun /\ IdleDiff /\ IdleNorm /\ IdleFormat /\ IdleUpload
  /\ content \in {Some(t) : t \in Texts}
  /\ expected_count \in 1..EXPECTED_QUERIES
  /\ queries = None

Parse ==
  /\ content # None /\ queries = None
  /\ queries' = Some(parse_queries(content[1], expected_count))
  /\ UNCHANGED <<runVars, diffVars, normVars, uploadVars, cli, web, content,
                 expected_count>>

NextParse == Parse
SpecParse == InitParse /\ [][NextParse]_vars

\* ------------------- normalize_result and diff_results applied to results
ColLists == {<<"ID", "NAME">>, <<"id", "NAME">>, <<"NAME", "ID">>}
RowVals == {<<1, 1>>, <<1, 2>>, <<2, 1>>, <<1, NULL>>}
RowLists == UNION {[1..n -> RowVals] : n \in 0..MaxRows}
RawResults == {[cols |-> c, rows |-> r] : c \in ColLists, r \in RowLists}

\* The model query returned exp_raw (None: it is missing), the submission's
\* query returned act_raw.
InitDiff ==
  /\ IdleRun /\ IdleParse /\ IdleNorm /\ IdleFormat /\ IdleUpload
  /\ exp_raw \in {None} \cup {Some(r) : r \in RawResults}
  /\ act_raw \in {Some(r) : r \in RawResults}
  /\ graded = None

Judged(expected, a) ==
  [expected |-> expected] @@ JudgeSlot(expected, a.cols, a.rows)

\* Phase 1 normalises the expected result, phase 2 judges the submission's.
Compare ==
  /\ act_raw # None /\ graded = None
  /\ graded' = Some(Judged(IF exp_raw = None THEN None
                             ELSE ExpectedOf(exp_raw[1].cols, exp_raw[1].rows),
                            act_raw[1]))
  /\ UNCHANGED <<runVars, parseVars, normVars, formatVars, uploadVars,
                 exp_raw, act_raw>>

NextDiff == Compare
SpecDiff == InitDiff /\ [][NextDiff]_vars

\* ------------------------- normalize_result applied to what it returned
InitNorm ==
  /\ IdleRun /\ IdleParse /\ IdleDiff /\ IdleFormat /\ IdleUpload
  /\ n_cols \in {Some(c) : c \in ColLists}
  /\ n_rows \in {None} \cup {Some(r) : r \in RowLists}
  /\ normalized = <<>>

\* what normalize_result is given next: the result drawn, then the value it
\* returned last
NormInput ==
  IF normalized = <<>> THEN [cols |-> n_cols[1], rows |-> n_rows]
  ELSE [cols |-> normalized[Len(normalized)].value[1].cols,
        rows |-> Some(normalized[Len(normalized)].value[1].rows)]

Normalized(in) ==
  [cols_in |-> in.cols, rows_in |-> in.rows]
    @@ normalize_result(in.cols, in.rows)

Normalize ==
  /\ n_cols # None /\ Len(normalized) < MaxApplications
  /\ normalized # <<>> => normalized[Len(normalized)].value # None
  /\ normalized' = Append(normalized, Normalized(NormInput))
  /\ UNCHANGED <<runVars, parseVars, diffVars, formatVars, uploadVars,
                 n_cols, n_rows>>

NextNorm == Normalize
SpecNorm == InitNorm /\ [][NextNorm]_vars

\* ------------------------------------ the format checkers applied to a file
UpperChars == <<"A", "B", "C", "D", "E", "F", "G", "H", "I", "J", "K", "L",
                "M", "N", "O", "P", "Q", "R", "S", "T", "U", "V", "W", "X",
                "Y", "Z">>
LowerChars == <<"a", "b", "c", "d", "e", "f", "g", "h", "i", "j", "k", "l",
                "m", "n", "o", "p", "q", "r", "s", "t", "u", "v", "w", "x",
                "y", "z">>

\* [A-Z] under re.IGNORECASE
IsLetter(c) == \E k \in 1..26 : UpperChars[k] = c \/ LowerChars[k] = c

\* str.upper(), a character at a time
UpperChar(c) ==
  IF \E k \in 1..26 : LowerChars[k] = c
  THEN UpperChars[CHOOSE k \in 1..26 : LowerChars[k] = c]
  ELSE c
upper(s) == [k \in 1..Len(s) |-> UpperChar(s[k])]

\* re.match(r"^\d{4}[A-Z0-9]{4}\d{4}[A-Z]\.sql$", filename, re.IGNORECASE)
is_valid_student_id_file(filename) ==
  /\ Len(filename) >= 17
  /\ \A k \in 1..4 : IsDigit(filename[k])
  /\ \A k \in 5..8 : IsLetter(filename[k]) \/ IsDigit(filename[k])
  /\ \A k \in 9..12 : IsDigit(filename[k])
  /\ IsLetter(filename[13])
  /\ filename[14] = "."
  /\ upper(SubSeq(filename, 15, 17)) = <<"S", "Q", "L">>
  /\ DollarAt(filename, 18)

\* query_text.endswith(';')
EndsWithSemicolon(t) == t # <<>> /\ t[Len(t)] = ";"

\* One turn of check_format's loop, m being what re.search and strip gave
\* for the slot: the value appended to results and the line printed.
check_format_slot(m) ==
  IF m # None
  THEN IF m[1] # <<>>
       THEN [result |-> TRUE,
             printed |-> IF ~EndsWithSemicolon(m[1]) THEN "WARN" ELSE "PASS"]
       ELSE [result |-> FALSE, printed |-> "FAIL no query follows"]
  ELSE [result |-> FALSE, printed |-> "FAIL marker missing"]

\* check_format(filename, expected_count): exists is os.path.exists(filename),
\* base_name the file's name, c its text.
check_format(exists, base_name, c, n) ==
  IF ~exists
  THEN [error |-> "not found", all_passed |-> None, results |-> <<>>,
        returned |-> FALSE]
  ELSE IF ~is_valid_student_id_file(base_name)
  THEN [error |-> "invalid filename", all_passed |-> None, results |-> <<>>,
        returned |-> FALSE]
  ELSE [error |-> "",
        all_passed |-> Some(\A i \in 1..n : Truthy(SearchSlot(c, i))),
        results |-> [i \in 1..n |-> check_format_slot(SearchSlot(c, i))],
        returned |-> \A i \in 1..n : Truthy(SearchSlot(c, i))]

\* What parse_one(clean_sql, read="oracle") may do with a query.
SyntaxOutcomes == {"parsed", "ParseError", "Exception"}

\* msg after a syntax message is added to it
WithSyntaxMsg(msg, syntax_msg) ==
  IF msg # <<"Correctly formatted.">> THEN msg \o <<syntax_msg>>
  ELSE <<syntax_msg>>

\* a marker alone is enough: the query after it may be empty
check_slot_streamlit_MarkerOnly(m, syn) ==
  IF m # None
  THEN [status |-> "PASS", msg |-> <<"Correctly formatted.">>,
        failed |-> FALSE]
  ELSE [status |-> "FAIL", msg |-> <<"is missing">>, failed |-> TRUE]

\* One turn of check_format_streamlit's loop, m being what re.search and
\* strip gave for the slot and syn what parse_one does with the query.
check_slot_streamlit(m, syn) ==
  IF m # None
  THEN IF m[1] # <<>>
       THEN LET status == IF ~EndsWithSemicolon(m[1]) THEN "WARNING"
                          ELSE "PASS"
                msg == IF ~EndsWithSemicolon(m[1])
                       THEN <<"might be missing a semicolon">>
                       ELSE <<"Correctly formatted.">>
            IN CASE syn = "parsed" ->
                      [status |-> status, msg |-> msg, failed |-> FALSE]
                 [] syn = "ParseError" ->
                      [status |-> "WARNING",
                       msg |-> WithSyntaxMsg(msg, "Potential syntax error"),
                       failed |-> FALSE]
                 [] syn = "Exception" ->
                      [status |-> "WARNING",
                       msg |-> WithSyntaxMsg(msg, "Could not validate syntax"),
                       failed |-> FALSE]
       ELSE [status |-> "FAIL", msg |-> <<"no query follows">>,
             failed |-> TRUE]
  ELSE [status |-> "FAIL", msg |-> <<"is missing">>, failed |-> TRUE]

\* check_format_streamlit(content, expected_count): (all_passed, results)
check_format_streamlit(c, n, syn) ==
  [all_passed |->
     \A i \in 1..n : ~check_slot_streamlit(SearchSlot(c, i), syn[i]).failed,
   results |->
     [i \in 1..n |->
        LET r == check_slot_streamlit(SearchSlot(c, i), syn[i])
        IN <<i, r.status, r.msg>>]]

\* What a checked file is made of: the markers of the slots, a letter, a
\* semicolon, a dash and a newline.
FormatPieces == {Marker(i) : i \in 1..EXPECTED_QUERIES}
                  \cup {<<"a">>, <<";">>, <<"-">>, <<"\n">>}
FormatTexts ==
  {Concat(ps) :
     ps \in UNION {[1..n -> FormatPieces] : n \in 0..MaxFormatPieces}}

\* The names a checked file may have.
FormatNames ==
  {<<"2", "0", "2", "3", "A", "7", "P", "S", "0", "0", "4", "3", "H",
     ".", "s", "q", "l">>,
   <<"a", "n", "s", ".", "s", "q", "l">>}

InitFormat ==
  /\ IdleRun /\ IdleDiff /\ IdleNorm /\ IdleUpload
  /\ content \in {Some(t) : t \in FormatTexts}
  /\ expected_count \in 1..EXPECTED_QUERIES
  /\ queries = None
  /\ cli = None
  /\ web = None

\* python check_format.py <file> [expected]
CheckFormat ==
  /\ content # None /\ cli = None
  /\ \E exists \in BOOLEAN, base_name \in FormatNames :
       cli' = Some(check_format(exists, base_name, content[1], expected_count))
  /\ UNCHANGED <<runVars, parseVars, diffVars, normVars, uploadVars, web>>

\* the Check Format button's call
CheckFormatStreamlit ==
  /\ content # None /\ web = None
  /\ \E syn \in [1..expected_count -> SyntaxOutcomes] :
       web' = Some(check_format_streamlit(content[1], expected_count, syn))
  /\ UNCHANGED <<runVars, parseVars, diffVars, normVars, uploadVars, cli>>

NextFormat ==
  \/ Parse
  \/ CheckFormat
  \/ CheckFormatStreamlit
SpecFormat == InitFormat /\ [][NextFormat]_vars

\* ------------------------------------------------ the upload form of app.py
Sessions == {"s1", "s2"}
Ip1 == <<"1", "0", ".", "0", ".", "0", ".", "1">>
Ip2 == <<"1", "0", ".", "0", ".", "0", ".", "2">>

\* The files a student may pick: three well-named ones, two of them one
\* identifier in two letter cases, and a badly named one.
LowerName == <<"2", "0", "2", "3", "a", "7", "p", "s", "0", "0", "4", "3",
               "h">> \o DotSql
UpperName == upper(RemoveSql(LowerName)) \o DotSql
OtherName == <<"2", "0", "2", "3", "A", "7", "P", "S", "0", "0", "4", "4",
               "H">> \o DotSql
BadName == <<"a", "n", "s">> \o DotSql
UploadNames == {LowerName, UpperName, OtherName, BadName}

\* Their texts: one with a query in every slot, one with none for slot 2.
GoodText == Marker(1) \o <<"\n", "a", ";", "\n">> \o Marker(2) \o <<"a", ";">>
PoorText == Marker(1) \o <<"\n", "a", ";", "\n">> \o Marker(2)
UploadTexts == {GoodText, PoorText}

\* dict.get(k) and d[k] = v
Get(d, k) == IF k \in DOMAIN d THEN Some(d[k]) ELSE None
Put(d, k, v) == [x \in DOMAIN d \cup {k} |-> IF x = k THEN v ELSE d[x]]

\* a session before anything was uploaded in it; of st.session_state the
\* results are left out: the list is read to be displayed and nowhere else
NewSessionState ==
  [last_uploaded_file |-> None, format_passed |-> FALSE,
   check_done |-> FALSE]
NotSubmitting == [pc |-> "idle"]

\* the script has run once and left SUBMISSIONS_LOG with two empty maps
InitUpload ==
  /\ IdleRun /\ IdleParse /\ IdleDiff /\ IdleNorm /\ IdleFormat
  /\ case_sensitive_fs \in BOOLEAN
  /\ remote_ip \in {[s1 |-> Ip1, s2 |-> ip] : ip \in {Ip1, Ip2}}
  /\ uploaded_file = [s \in Sessions |-> None]
  /\ session_state = [s \in Sessions |-> NewSessionState]
  /\ submitting = [s \in Sessions |-> NotSubmitting]
  /\ tracking_file = [ip_to_id |-> <<>>, id_to_ip |-> <<>>]
  /\ queries_dir = <<>>
  /\ events = <<>>
  /\ interactions = 0

\* the state of the form in session s lets the user act on it
Ready(s) ==
  /\ remote_ip # None
  /\ submitting[s] = NotSubmitting
  /\ interactions < MaxInteractions

\* both buttons are drawn: a file is in the widget and its name is valid
ButtonsShown(s) ==
  /\ uploaded_file[s] # None
  /\ is_valid_student_id_file(uploaded_file[s][1].name)

\* The user puts a file into the uploader and the script runs: the session
\* state is reset when the file's name is not the one seen last.
Upload(s) ==
  /\ Ready(s)
  /\ \E name \in UploadNames, text \in UploadTexts :
       /\ uploaded_file' =
            [uploaded_file EXCEPT ![s] = Some([name |-> name, text |-> text])]
       /\ session_state' =
            [session_state EXCEPT ![s] =
               IF @.last_uploaded_file # Some(name)
               THEN [@ EXCEPT !.last_uploaded_file = Some(name),
                              !.format_passed = FALSE,
                              !.check_done = FALSE]
               ELSE @]
  /\ interactions' = interactions + 1
  /\ UNCHANGED <<runVars, parseVars, diffVars, normVars, formatVars,
                 case_sensitive_fs, remote_ip, submitting, tracking_file,
                 queries_dir, events>>

\* A click on Check Format.
ClickCheckFormat(s) ==
  /\ Ready(s) /\ ButtonsShown(s)
  /\ \E syn \in [1..EXPECTED_QUERIES -> SyntaxOutcomes] :
       session_state' =
         [session_state EXCEPT ![s] =
            LET checked == check_format_streamlit(uploaded_file[s][1].text,
                                                  EXPECTED_QUERIES, syn)
            IN [@ EXCEPT !.format_passed = checked.all_passed,
                         !.check_done = TRUE]]
  /\ interactions' = interactions + 1
  /\ UNCHANGED <<runVars, parseVars, diffVars, normVars, formatVars,
                 case_sensitive_fs, remote_ip, uploaded_file, submitting,
                 tracking_file, queries_dir, events>>

\* filename.replace(".sql", "").upper()
StudentIdOf(filename) == upper(RemoveSql(filename))

\* Rule 1 and rule 2 on the tracking data that was loaded.
Blocked(tracking, user_ip, id) ==
  \/ /\ Truthy(Get(tracking.ip_to_id, user_ip))
     /\ Get(tracking.ip_to_id, user_ip) # Some(id)
  \/ /\ Truthy(Get(tracking.id_to_ip, id))
     /\ Get(tracking.id_to_ip, id) # Some(user_ip)

\* A click on Submit Query, enabled when format_passed was true: the
\* tracking data is loaded and the two rules decide; a blocked attempt
\* writes its line to the events log and is over.
ClickSubmit(s) ==
  /\ Ready(s) /\ ButtonsShown(s)
  /\ session_state[s].format_passed
  /\ interactions' = interactions + 1
  /\ IF Blocked(tracking_file, remote_ip[s],
                StudentIdOf(uploaded_file[s][1].name))
     THEN /\ events' = Append(events,
                 [event_type |-> "BLOCKED",
                  student_id |-> StudentIdOf(uploaded_file[s][1].name),
                  ip |-> remote_ip[s],
                  file |-> uploaded_file[s][1].name])
          /\ UNCHANGED submitting
     ELSE /\ submitting' =
               [submitting EXCEPT ![s] =
                  [pc |-> "store", tracking |-> tracking_file,
                   is_update |->
                     Get(tracking_file.ip_to_id, remote_ip[s])
                       = Some(StudentIdOf(uploaded_file[s][1].name))]]
          /\ UNCHANGED events
  /\ UNCHANGED <<runVars, parseVars, diffVars, normVars, formatVars,
                 case_sensitive_fs, remote_ip, uploaded_file, session_state,
                 tracking_file, queries_dir>>

\* open(save_path, "w") and f.write(content): a directory that does not
\* tell the letter cases apart writes to the file it has under that name
WriteFile(dir, sensitive, name, text) ==
  IF ~sensitive /\ \E g \in DOMAIN dir : upper(g) = upper(name)
  THEN [dir EXCEPT ![CHOOSE g \in DOMAIN dir : upper(g) = upper(name)] = text]
  ELSE Put(dir, name, text)

\* The file is stored under the name it was uploaded with.
StoreFile(s) ==
  /\ remote_ip # None
  /\ submitting[s].pc = "store"
  /\ queries_dir' = WriteFile(queries_dir, case_sensitive_fs,
                              uploaded_file[s][1].name,
                              uploaded_file[s][1].text)
  /\ submitting' = [submitting EXCEPT ![s].pc = "save"]
  /\ UNCHANGED <<runVars, parseVars, diffVars, normVars, formatVars,
                 case_sensitive_fs, remote_ip, uploaded_file, session_state,
                 tracking_file, events, interactions>>

\* The tracking data this run loaded gets the two new entries and replaces
\* SUBMISSIONS_LOG; the events log gets its line.
SaveTracking(s) ==
  /\ remote_ip # None
  /\ submitting[s].pc = "save"
  /\ tracking_file' =
       [ip_to_id |-> Put(submitting[s].tracking.ip_to_id, remote_ip[s],
                         StudentIdOf(uploaded_file[s][1].name)),
        id_to_ip |-> Put(submitting[s].tracking.id_to_ip,
                         StudentIdOf(uploaded_file[s][1].name),
                         remote_ip[s])]
  /\ events' = Append(events,
       [event_type |-> IF submitting[s].is_update THEN "UPDATE" ELSE "SUBMIT",
        student_id |-> StudentIdOf(uploaded_file[s][1].name),
        ip |-> remote_ip[s],
        file |-> uploaded_file[s][1].name])
  /\ submitting' = [submitting EXCEPT ![s] = NotSubmitting]
  /\ UNCHANGED <<runVars, parseVars, diffVars, normVars, formatVars,
                 case_sensitive_fs, remote_ip, uploaded_file, session_state,
                 queries_dir, interactions>>

NextUpload ==
  \/ \E s \in Sessions : Upload(s)
  \/ \E s \in Sessions : ClickCheckFormat(s)
  \/ \E s \in Sessions : ClickSubmit(s)
  \/ \E s \in Sessions : StoreFile(s)
  \/ \E s \in Sessions : SaveTracking(s)
SpecUpload == InitUpload /\ [][NextUpload]_vars

\* ---- C9
Perms(n) == {f \in [1..n -> 1..n] : \A a, b \in 1..n : a # b => f[a] # f[b]}
Permuted(rows, f) == [k \in 1..Len(rows) |-> rows[f[k]]]
Count(rows, r) == Cardinality({k \in 1..Len(rows) : rows[k] = r})
IsPermutationOf(a, b) ==
  /\ Len(a) = Len(b)
  /\ \A k \in 1..Len(a) : Count(a, a[k]) = Count(b, a[k])

\* C9: the verdict does not depend on row order.  When the actual rows are a
\* permutation of the expected rows and the columns are identical the verdict
\* is PASS; and permuting the rows of either result, before or after they are
\* normalised, changes neither the verdict nor the missing and extra rows.
C9_RowOrderIrrelevant ==
  (graded # None /\ exp_raw # None) =>
    LET e == exp_raw[1]
        a == act_raw[1]
        g == graded[1]
    IN /\ (/\ g.expected # None
           /\ e.cols = a.cols
           /\ IsPermutationOf(e.rows, a.rows)) => g.status = "PASS"
       /\ \A f \in Perms(Len(a.rows)) :
            LET j == JudgeSlot(g.expected, a.cols, Permuted(a.rows, f))
                d == diff_results(Some(e),
                         Some([a EXCEPT !.rows = Permuted(a.rows, f)]))
            IN /\ j.status = g.status /\ j.diff = g.diff
               /\ d = diff_results(Some(e), Some(a))
       /\ \A f \in Perms(Len(e.rows)) :
            LET x == ExpectedOf(e.cols, Permuted(e.rows, f))
                d == diff_results(
                         Some([e EXCEPT !.rows = Permuted(e.rows, f)]), Some(a))
            IN /\ x = g.expected
               /\ d = diff_results(Some(e), Some(a))

\* Scenario 1: the expected rows in ascending order, the actual rows the same
\* in descending order, the verdict PASS.
C9_Witness ==
  /\ graded # None /\ exp_raw # None
  /\ exp_raw[1].rows = <<(<<1, 1>>), (<<2, 1>>)>>
  /\ act_raw[1].rows = <<(<<2, 1>>), (<<1, 1>>)>>
  /\ exp_raw[1].cols = act_raw[1].cols
  /\ graded[1].status = "PASS"

\* ---- C10
SameColumns(c1, c2) ==
  Len(c1) = Len(c2) /\ \A k \in 1..Len(c1) : c1[k] = c2[k]

\* C10: column lists are compared as ordered sequences, exactly and with the
\* letters' case: any difference in a name's case or position gives FAIL with
\* a column-mismatch paragraph, and the rows are still compared, so the report
\* holds the missing and the extra rows beside the column mismatch.
C10_ColumnsExactAndRowsStillCompared ==
  (graded # None /\ graded[1].kind = "graded" /\ graded[1].expected # None) =>
    LET e == graded[1].expected[1]
        a == act_raw[1]
        g == graded[1]
    IN /\ (~SameColumns(e.cols, a.cols)) =>
            /\ g.status = "FAIL"
            /\ g.diff.columns = Some(<<e.cols, a.cols>>)
       /\ SameColumns(e.cols, a.cols) => g.diff.columns = None
       /\ g.diff.missing = {r \in RowVals :
             (\E k \in 1..Len(e.rows) : e.rows[k] = r)
               /\ ~(\E k \in 1..Len(a.rows) : a.rows[k] = r)}
       /\ g.diff.extra = {r \in RowVals :
             (\E k \in 1..Len(a.rows) : a.rows[k] = r)
               /\ ~(\E k \in 1..Len(e.rows) : e.rows[k] = r)}

\* Scenario 2 with rows that differ too: the columns differ in case alone and
\* the report holds the column mismatch, a missing row and an extra row.
C10_Witness ==
  /\ graded # None /\ graded[1].kind = "graded" /\ graded[1].expected # None
  /\ graded[1].expected[1].cols = <<"ID", "NAME">>
  /\ act_raw[1].cols = <<"id", "NAME">>
  /\ graded[1].status = "FAIL"
  /\ graded[1].diff.columns # None
  /\ graded[1].diff.missing # {}
  /\ graded[1].diff.extra # {}

\* ---- C7
\* The first place the marker of slot i occurs in s (0: nowhere).
FirstMarker(s, i) ==
  LET at == {k \in 1..Len(s) : LiteralAt(s, Marker(i), k)}
  IN IF at = {} THEN 0 ELSE Min(at)

\* Two dashes, one or more digits and two dashes stand in s from position m.
MarkerFormAt(s, m) ==
  \E e \in (m + 3)..(Len(s) - 1) :
     /\ s[m] = "-" /\ s[m + 1] = "-" /\ s[e] = "-" /\ s[e + 1] = "-"
     /\ \A x \in (m + 2)..(e - 1) :
           s[x] \in {"0", "1", "2", "3", "4", "5", "6", "7", "8", "9"}

\* The text between the first marker of slot i and the next marker of any
\* slot number, or the end of the text, trimmed.
PayloadOf(s, i) ==
  LET from == FirstMarker(s, i) + Len(Marker(i))
      next == Min({m \in from..Len(s) : MarkerFormAt(s, m)} \cup {Len(s) + 1})
  IN strip(SubSeq(s, from, next - 1))

\* Every slot 1..n has its marker in s, followed by text that is not blank.
WellMarked(s, n) ==
  \A i \in 1..n : FirstMarker(s, i) > 0 /\ PayloadOf(s, i) # <<>>

\* C7: for a text holding the markers --1-- .. --N--, in any order, each
\* followed by non-blank text, parse_queries gives every slot the trimmed text
\* between the first occurrence of its marker and the next marker of any slot
\* number (--10-- included) or the end of the text, and no slot is absent.
C7_ExtractsEachPayload ==
  (queries # None /\ WellMarked(content[1], expected_count)) =>
     \A i \in 1..expected_count :
        /\ queries[1][i] # None
        /\ queries[1][i] = Some(PayloadOf(content[1], i))
        /\ queries[1][i][1] # <<>>

\* Slot 2 is marked before slot 1 and the payload of slot 1 ends at --10--.
C7_Witness ==
  /\ queries # None
  /\ expected_count = 2
  /\ WellMarked(content[1], 2)
  /\ FirstMarker(content[1], 2) < FirstMarker(content[1], 1)
  /\ \E k \in 1..Len(content[1]) :
        /\ LiteralAt(content[1], Marker(10), k)
        /\ k > FirstMarker(content[1], 1)
  /\ queries[1][1] = Some(<<"a">>)

\* ---- C1
\* C1: every execution of a query text, of the model solution in phase 1 and
\* of a submission in phase 2, comes directly after a completed schema reset
\* (drop_all_tables, then run_sql_script), no other query between the two; a
\* slot whose reset raised executes nothing.
C1_QueryFollowsReset ==
  /\ (dbOps # <<>> /\ dbOps[Len(dbOps)] = "query") =>
        /\ Len(dbOps) >= 3
        /\ dbOps[Len(dbOps) - 2] = "drop"
        /\ dbOps[Len(dbOps) - 1] = "script"
  /\ \A k \in 1..Len(log) : log[k].executed # "no" => log[k].reset = "done"

\* Both model queries ran in phase 1 and both queries of a submission have
\* run, the second one last.
C1_Witness ==
  /\ pc = "grading" /\ Len(log) = EXPECTED_QUERIES
  /\ \A k \in 1..Len(p1log) : p1log[k].outcome = "ok"
  /\ \A k \in 1..Len(log) : log[k].executed = "returned"
  /\ dbOps = <<"drop", "script", "query">>

\* ---- C2
\* the state the schema script defines
SchemaState == run_sql_script(EmptyDb, SchemaStatements, FALSE).db

\* C2: whatever the queries before it did, a schema reset that completed
\* leaves the database in the state the schema script defines, with no other
\* object and no other row.
C2_ResetLeavesSchemaState ==
  /\ \A k \in 1..Len(p1log) :
        p1log[k].outcome # "reset raised" => p1log[k].resetDb = SchemaState
  /\ \A k \in 1..Len(log) :
        log[k].reset = "done" => log[k].resetDb = SchemaState

\* ---- C3
\* C3: for a slot whose query executed and whose expected result is present
\* the verdict put in the score row is PASS exactly when the column lists are
\* equal, no expected row is missing from the actual rows and no actual row
\* is missing from the expected rows; it is FAIL otherwise.
C3_PassIffNoDifference ==
  /\ \A k \in 1..Len(student_scores) :
       (log[k].executed = "returned" /\ log[k].expected # None) =>
          LET e == log[k].expected[1]
              a == log[k].raw[1]
              missing == \E x \in 1..Len(e.rows) :
                            \A y \in 1..Len(a.rows) : a.rows[y] # e.rows[x]
              extra == \E y \in 1..Len(a.rows) :
                          \A x \in 1..Len(e.rows) : e.rows[x] # a.rows[y]
          IN /\ student_scores[k] \in {"PASS", "FAIL"}
             /\ student_scores[k] = "PASS"
                  <=> (SameColumns(e.cols, a.cols) /\ ~missing /\ ~extra)
  /\ (pc = "files" /\ Len(student_scores) = EXPECTED_QUERIES) =>
        \A k \in Slots : results[Len(results)][k + 1] = student_scores[k]

\* Slot 1 passed; slot 2 has the expected columns and lacks an expected row,
\* and failed; the score row is written.
C3_Witness ==
  /\ pc = "files" /\ Len(student_scores) = EXPECTED_QUERIES
  /\ \A k \in Slots : log[k].executed = "returned" /\ log[k].expected # None
  /\ student_scores = <<"PASS", "FAIL">>
  /\ log[2].raw[1].cols = log[2].expected[1].cols
  /\ log[2].diff.missing # {} /\ log[2].diff.extra = {}

\* ---- C4
\* the slot of log entry x raised: in the schema reset, in the execution of
\* the query or in the normalisation of its rows
SlotRaised(x) ==
  \/ x.reset = "raised"
  \/ x.executed = "raised"
  \/ x.executed = "returned" /\ SortRaises(x.raw[1].rows)

\* C4: an exception raised in a slot is caught at the slot: the slot is scored
\* FAIL and logged as an error with the exception's text, the run does not
\* end there, and the loop goes on to the next slot, which is reset and, when
\* it has a query, executed and given its own verdict.
C4_SlotFailureIsContained ==
  /\ pc # "aborted in a slot"
  /\ Len(log) = Len(student_scores)
  /\ pc = "grading" => Len(log) = slot - 1
  /\ \A k \in 1..Len(student_scores) :
        /\ log[k].kind = "error" <=> SlotRaised(log[k])
        /\ log[k].kind = "error" =>
              /\ student_scores[k] = "FAIL"
              /\ log[k].text = "SQL ERROR:"
              /\ log[k].exc # ""
        /\ (/\ log[k].reset = "done"
            /\ log[k].sql # None /\ log[k].sql # Some(<<>>))
              => log[k].executed # "no"
        /\ student_scores[k] \in {"PASS", "FAIL"}

\* Scenario 4: the query of slot 1 raised, slot 2 was reset, executed and
\* passed.
C4_Witness ==
  /\ Len(log) = 2 /\ Len(student_scores) = 2
  /\ log[1].kind = "error" /\ log[1].executed = "raised"
  /\ student_scores[1] = "FAIL"
  /\ log[2].reset = "done" /\ log[2].executed = "returned"
  /\ student_scores[2] = "PASS"

\* ---- C5
\* the run is over
RunEnded ==
  pc \in {"done", "aborted reading a submission", "aborted in a slot"}

\* C5: once phase 2 has begun, the run ends only with the report written and
\* a score row in it for every .sql file of the submissions directory.
C5_EveryFileGetsARow ==
  RunEnded =>
     /\ csv # None
     /\ \A k \in 1..Len(listing) :
           EndsWithSql(listing[k]) =>
              \E r \in 1..Len(csv[1]) : csv[1][r][1] = RemoveSql(listing[k])

\* ---- C6
\* what the file text t holds for slot i: no marker, a marker and blanks, or
\* a marker and a query
SlotKind(t, i) ==
  IF FirstMarker(t, i) = 0 THEN "missing"
  ELSE IF PayloadOf(t, i) = <<>> THEN "blank" ELSE "query"
SlotKinds ==
  {<<t, i, SlotKind(t, i)>> : t \in ModelTexts \cup StudentTexts, i \in Slots}
MarkerMissing(t, i) == <<t, i, "missing">> \in SlotKinds
MarkerBlank(t, i) == <<t, i, "blank">> \in SlotKinds

\* the file text t has no query for slot i
NoQueryIn(t, i) == MarkerMissing(t, i) \/ MarkerBlank(t, i)

Phase2 ==
  pc \in {"files", "grading", "done", "aborted reading a submission",
          "aborted in a slot"}

\* every submission graded so far has FAIL for slot i
NobodyPassed(i) ==
  /\ \A r \in 1..Len(results) : results[r][i + 1] = "FAIL"
  /\ i <= Len(student_scores) => student_scores[i] = "FAIL"

\* C6 as the specification states it: when the model solution has no query
\* for slot i, or its query raised in phase 1, the expected result of slot i
\* is absent throughout phase 2, nobody passes slot i, and every submission
\* has the discrepancy "No expected result provided." for slot i; the other
\* slots keep their expected results.
C6_EverySubmissionSeesNoExpected ==
  Phase2 =>
    \A i \in Slots :
      /\ NoQueryIn(model_content, i) => p1log[i].outcome = "not found"
      /\ p1log[i].outcome = "ok" <=> expected_results[i] # None
      /\ expected_results[i] = None =>
            /\ NobodyPassed(i)
            /\ i <= Len(log) =>
                  log[i].diff.message = "No expected result provided."

\* C6: when the model solution has no query for slot i, or its query raised
\* in phase 1, the expected result of slot i is absent throughout phase 2 and
\* nobody passes slot i; a submission whose query for slot i executed and was
\* normalised has the discrepancy "No expected result provided.", and a
\* submission that has no query for slot i, or whose slot raised, has FAIL
\* with no discrepancy; the other slots keep their expected results.
C6_AbsentExpectedNeverPasses ==
  Phase2 =>
    \A i \in Slots :
      /\ NoQueryIn(model_content, i) => p1log[i].outcome = "not found"
      /\ p1log[i].outcome = "ok" <=> expected_results[i] # None
      /\ expected_results[i] = None =>
            /\ NobodyPassed(i)
            /\ i <= Len(log) =>
                  /\ log[i].expected = None
                  /\ log[i].kind = "graded" =>
                        log[i].diff.message = "No expected result provided."
                  /\ log[i].kind # "graded" => log[i].diff.message = ""

\* The model solution lacks slot 1 and answers slot 2; a submission that
\* answers both as the model answers slot 2 has FAIL, with the discrepancy,
\* for slot 1 and PASS for slot 2.
C6_Witness ==
  /\ pc = "files" /\ Len(log) = 2 /\ Len(student_scores) = 2
  /\ NoQueryIn(model_content, 1)
  /\ expected_results[1] = None /\ expected_results[2] # None
  /\ log[1].kind = "graded" /\ student_scores[1] = "FAIL"
  /\ log[1].diff.message = "No expected result provided."
  /\ student_scores[2] = "PASS"

\* ---- C8
AbsentText == "STATUS: FAIL (Marker not found or empty)"

\* the score row r ends with the number of its PASS cells, a slash and the
\* number of slots
TotalCounts(r) ==
  LET n == Cardinality({k \in Slots : r[k + 1] = "PASS"})
  IN /\ r[EXPECTED_QUERIES + 2] = Str(n) \o <<"/">> \o Str(EXPECTED_QUERIES)
     /\ (n = 1 /\ EXPECTED_QUERIES = 2) =>
           r[EXPECTED_QUERIES + 2] = <<"1", "/", "2">>

\* what holds of slot k of the submission being graded whether or not the
\* log tells a blank slot from a missing marker
AbsentSlotFails(k) ==
  /\ MarkerMissing(student_content, k) <=> student_queries[k] = None
  /\ MarkerBlank(student_content, k) <=> student_queries[k] = Some(<<>>)
  /\ (log[k].reset = "done" /\ NoQueryIn(student_content, k)) =>
        /\ log[k].kind = "absent"
        /\ log[k].executed = "no"
        /\ student_scores[k] = "FAIL"
  /\ (log[k].reset = "done" /\ ~NoQueryIn(student_content, k)) =>
        /\ log[k].kind # "absent"
        /\ log[k].executed # "no"

C11_RowHasNPlusTwoCells ==
  /\ \A r \in 1..Len(results) : Len(results[r]) = EXPECTED_QUERIES + 2
  /\ (pc = "files" /\ Len(student_scores) = EXPECTED_QUERIES) =>
        /\ results[Len(results)][1] = student_id
        /\ \A k \in Slots : results[Len(results)][k + 1] = student_scores[k]
  /\ csv # None => csv[1] = results

\* A row is appended for a submission whose slot 1 has no query, whose slot 2
\* raised, while the model solution has no expected result for slot 2.
C11_Witness ==
  /\ pc = "files" /\ Len(log) = EXPECTED_QUERIES /\ Len(results) >= 1
  /\ log[1].kind = "absent" /\ log[2].kind = "error"
  /\ expected_results[2] = None
  /\ Len(results[Len(results)]) = 4

\* ---- C12
\* C12: in every score row each slot's cell is PASS or FAIL, a slot that
\* raised having FAIL, and the last cell is "k/N", N being EXPECTED_QUERIES
\* and k the number of PASS cells of that row, between 0 and N.
C12_CellsAndTotal ==
  /\ \A r \in 1..Len(results) :
        LET row == results[r]
            k == Cardinality({i \in Slots : row[i + 1] = "PASS"})
        IN /\ \A i \in Slots : row[i + 1] \in {"PASS", "FAIL"}
           /\ k >= 0 /\ k <= EXPECTED_QUERIES
           /\ row[Len(row)] = Str(k) \o <<"/">> \o Str(EXPECTED_QUERIES)
           /\ EXPECTED_QUERIES = 2 =>
                 row[Len(row)] = CASE k = 0 -> <<"0", "/", "2">>
                                   [] k = 1 -> <<"1", "/", "2">>
                                   [] k = 2 -> <<"2", "/", "2">>
  /\ (pc = "files" /\ Len(student_scores) = EXPECTED_QUERIES) =>
        \A i \in Slots :
           log[i].kind = "error" => results[Len(results)][i + 1] = "FAIL"

\* Two rows: one with two PASS cells and "2/2", one whose slot 1 raised, with
\* FAIL, PASS and "1/2".
C12_Witness ==
  /\ pc = "files" /\ Len(results) = 2 /\ Len(log) = EXPECTED_QUERIES
  /\ results[1][2] = "PASS" /\ results[1][3] = "PASS"
  /\ results[1][4] = <<"2", "/", "2">>
  /\ log[1].kind = "error"
  /\ results[2][2] = "FAIL" /\ results[2][3] = "PASS"
  /\ results[2][4] = <<"1", "/", "2">>

\* ---- C14
\* C14: with both results present, diff_results with its arguments swapped
\* gives the missing rows as extra rows and the extra rows as missing rows,
\* names the two column lists the other way round, and is empty exactly when
\* diff_results with the arguments in place is empty.
C14_SwapSwapsMissingAndExtra ==
  (graded # None /\ graded[1].kind = "graded" /\ graded[1].expected # None) =>
    LET e == graded[1].expected
        a == graded[1].actual
        d == diff_results(e, a)
        s == diff_results(a, e)
    IN /\ graded[1].diff = d
       /\ s.missing = d.extra /\ s.extra = d.missing
       /\ d.extra = {r \in RowVals :
             (\E k \in 1..Len(a[1].rows) : a[1].rows[k] = r)
               /\ ~(\E k \in 1..Len(e[1].rows) : e[1].rows[k] = r)}
       /\ (d.columns = None) <=> (s.columns = None)
       /\ d.columns # None =>
             s.columns = Some(<<d.columns[1][2], d.columns[1][1]>>)
       /\ DiffTruthy(d) <=> DiffTruthy(s)
       /\ d.message = "" /\ s.message = ""

\* The expected result has a row the actual result lacks, and the actual
\* result a row the expected result lacks.
C14_Witness ==
  /\ graded # None /\ graded[1].kind = "graded" /\ graded[1].expected # None
  /\ graded[1].diff.missing = {<<1, 1>>}
  /\ graded[1].diff.extra = {<<1, 2>>, <<2, 1>>}

\* ---- C19
\* C19: a PASS verdict is given only when the expected and the actual
\* normalised results are the same: the same columns and the same sorted
\* rows, every row as many times in the one as in the other.
C19_PassMeansIdentical ==
  (graded # None /\ graded[1].status = "PASS") =>
     /\ graded[1].expected # None /\ graded[1].actual # None
     /\ graded[1].expected[1].cols = graded[1].actual[1].cols
     /\ graded[1].expected[1].rows = graded[1].actual[1].rows
     /\ \A r \in RowVals :
           Count(exp_raw[1].rows, r) = Count(act_raw[1].rows, r)

\* ---- C15
\* C15: normalize_result given what it returned returns the same value, the
\* columns it returns are the columns it was given, in their order, and rows
\* that are None give None.
C15_NormalizeIdempotent ==
  \A k \in 1..Len(normalized) :
    LET x == normalized[k]
    IN /\ x.rows_in = None => (~x.raised /\ x.value = None)
       /\ x.value # None =>
             /\ x.value[1].cols = x.cols_in
             /\ x.cols_in = n_cols[1]
             /\ IsPermutationOf(x.value[1].rows, x.rows_in[1])
       /\ k > 1 => (~x.raised /\ x.value = normalized[k - 1].value)

\* Rows given in descending order were normalised, and the value returned
\* was normalised again.
C15_Witness ==
  /\ Len(normalized) = 2
  /\ n_cols = Some(<<"NAME", "ID">>)
  /\ n_rows = Some(<<(<<2, 1>>), (<<1, 1>>)>>)
  /\ normalized[1].value[1].rows = <<(<<1, 1>>), (<<2, 1>>)>>
  /\ normalized[2].value = normalized[1].value

\* ---- C16
\* the file name a comes before the file name b: a is a proper prefix of b,
\* or at the first place they differ a has the character of the lower code
\* point
NameBefore(a, b) ==
  \E k \in 1..(Len(b)) :
     /\ \A j \in 1..(k - 1) : j <= Len(a) /\ a[j] = b[j]
     /\ k > Len(a) \/ Ord(a[k]) < Ord(b[k])

\* the identifiers of the .sql files among the first n files of the listing
RECURSIVE IdsOfFirst(_)
IdsOfFirst(n) ==
  IF n = 0 THEN <<>>
  ELSE IF EndsWithSql(listing[n])
       THEN Append(IdsOfFirst(n - 1), RemoveSql(listing[n]))
       ELSE IdsOfFirst(n - 1)

\* C16: the files are taken in ascending order of their names; while a
\* submission is graded, every .sql file before it has its score row and no
\* other file has one, the rows standing in the order of the file names; the
\* report holds these rows, one for each .sql file of the directory.
C16_GradedInFilenameOrder ==
  Phase2 =>
    /\ \A i, j \in 1..Len(listing) : i < j => NameBefore(listing[i], listing[j])
    /\ [r \in 1..Len(results) |-> results[r][1]] = IdsOfFirst(fileIdx - 1)
    /\ pc = "grading" =>
          /\ EndsWithSql(listing[fileIdx])
          /\ student_id = RemoveSql(listing[fileIdx])
          /\ Len(student_scores) = slot - 1
    /\ csv # None =>
          /\ fileIdx = Len(listing) + 1
          /\ [r \in 1..Len(csv[1]) |-> csv[1][r][1]] = IdsOfFirst(Len(listing))
          /\ csv[1] = results

\* The directory holds a.sql and B.sql: B.sql was graded first, and the
\* report holds the row of B and then the row of a.
C16_Witness ==
  /\ pc = "done"
  /\ listing = <<(<<"B", ".", "s", "q", "l">>), (<<"a", ".", "s", "q", "l">>)>>
  /\ csv # None /\ Len(csv[1]) = 2
  /\ csv[1][1][1] = <<"B">> /\ csv[1][2][1] = <<"a">>

\* ---- C20
\* the grader finds a query to run in every slot 1..N (main.py's "if not sql")
AllSlotsHaveQuery == \A i \in 1..expected_count : Truthy(queries[1][i])

\* C20: on every file text and every N, check_format_streamlit reports
\* all_passed exactly when parse_queries yields a non-empty query for every
\* slot and marks slot i FAIL exactly when the grader finds no query to
\* grade in it; check_format, if it gets to read the file, does the same and
\* returns its all_passed; and whenever a checker accepts the file, the
\* grader finds a query in every slot.
C20_CheckersAgreeWithGrader ==
  queries # None =>
    /\ web # None =>
         /\ web[1].all_passed <=> AllSlotsHaveQuery
         /\ \A i \in 1..expected_count :
              /\ web[1].results[i][1] = i
              /\ web[1].results[i][2] = "FAIL" <=> ~Truthy(queries[1][i])
    /\ (cli # None /\ cli[1].all_passed # None) =>
         /\ cli[1].all_passed[1] <=> AllSlotsHaveQuery
         /\ cli[1].returned = cli[1].all_passed[1]
         /\ \A i \in 1..expected_count :
              /\ cli[1].results[i].result <=> Truthy(queries[1][i])
              /\ cli[1].results[i].printed
                   \in {"FAIL no query follows", "FAIL marker missing"}
                   <=> ~Truthy(queries[1][i])
    /\ (cli # None /\ cli[1].returned) => AllSlotsHaveQuery

\* both checkers accepted a file of two queries, WARNING on the first alone
C20_Witness ==
  /\ queries # None /\ cli # None /\ web # None
  /\ expected_count = 2
  /\ cli[1].returned /\ web[1].all_passed
  /\ web[1].results[1][2] = "WARNING" /\ web[1].results[2][2] = "PASS"
  /\ AllSlotsHaveQuery

\* ---- C18
\* C18: a file is in the submissions directory only if the format check
\* passed on the content stored: every slot 1..N has a non-empty query.
C18_StoredContentPassedCheck ==
  \A f \in DOMAIN queries_dir :
    \A i \in 1..EXPECTED_QUERIES : Truthy(SearchSlot(queries_dir[f], i))

\* ---- C17
\* the attempts that stored a file, as the events log has them
StoredEvents ==
  {events[k] : k \in {j \in 1..Len(events) :
                        events[j].event_type \in {"SUBMIT", "UPDATE"}}}

\* C17: under any interleaving of submit attempts no IP has stored
\* submissions for two student IDs and no ID has them from two IPs.
C17_OneIdPerIpAndOneIpPerId ==
  \A e1, e2 \in StoredEvents : e1.ip = e2.ip <=> e1.student_id = e2.student_id

\* ---- C13
\* C13: the submissions one client stored under one identifier are one file
\* of the directory, the later replacing the earlier whatever the letter
\* case of the uploaded filename.
C13_ResubmissionReplaces ==
  \A e1, e2 \in StoredEvents :
    (/\ e1.ip = e2.ip /\ e1.student_id = e2.student_id
     /\ e1.file \in DOMAIN queries_dir /\ e2.file \in DOMAIN queries_dir)
      => e1.file = e2.file
====
